---------------------------- MODULE Spec2Model ----------------------------
(***************************************************************************)
(* Label co-occurrence clustering of scikit-multilearn:                    *)
(*   skmultilearn/cluster/base.py      LabelCooccurenceClustererBase       *)
(*   skmultilearn/cluster/graphtool.py GraphToolCooccurenceClusterer       *)
(*                                                                         *)
(* Three specifications share the variables below.                         *)
(*   SpecInit     the constructor of LabelCooccurenceClustererBase applied *)
(*                to arbitrary Python values;                              *)
(*   SpecBuilder  generate_coocurence_adjacency_matrix applied once to a   *)
(*                matrix drawn from Matrices(MaxRows, MaxLabels);          *)
(*   Spec         a GraphToolCooccurenceClusterer whose fit_predict is     *)
(*                called again and again on matrices drawn from            *)
(*                Matrices(MaxFitRows, MaxFitLabels), the caller setting   *)
(*                use_degree_corr between calls; its builder makes no      *)
(*                self edges;                                              *)
(*   SpecGraph    the same clusterer with any builder, matrices drawn from *)
(*                Matrices(MaxGraphRows, MaxGraphLabels), one sweep and    *)
(*                degree correction forced off;                            *)
(*   SpecSelect   the same clusterer with either selection criterion, one  *)
(*                sweep, and description lengths that differ between the   *)
(*                fitted models.                                           *)
(*                                                                         *)
(* fit_predict is one call that nothing interleaves with; it is written as *)
(* the steps fit_predict_begin, then per fitted deg_corr                   *)
(* predict_communities_begin, n_iters times collect_marginals and          *)
(* predict_communities_end, then fit_predict_end, each of which draws the  *)
(* answers graph-tool gives there.  pc forces the steps in this order.     *)
(*                                                                         *)
(* Floats.  Every weight the code produces is a multiple of 0.5, so a      *)
(* float x is held as the integer 2*x ("halves"): 1.0 is 2, 0.5 is 1.      *)
(***************************************************************************)
EXTENDS Integers, Sequences, FiniteSets, TLC

\* ------------------------------------------------------------------ bounds
\* SpecBuilder: the label matrices have at most MaxRows samples and MaxLabels labels.
MaxRows == 3
MaxLabels == 3
\* Spec: the label matrices given to fit_predict.
MaxFitRows == 1
MaxFitLabels == 2
\* SpecGraph: the label matrices given to fit_predict.
MaxGraphRows == 2
MaxGraphLabels == 2
\* Spec: n_iters, the number of sweeps of one equilibration, is in 1..MaxIters.
MaxIters == 2

\* ----------------------------------------------------------- Python values
\* The values a caller may pass for a flag: the two booleans, None, integers
\* and a string.  They are held by their repr.
PyVal == {"True", "False", "None", "0", "1", "2", "'yes'"}

Bools == {"True", "False"}

\* Python's ==: bool is a subclass of int, True == 1 and False == 0.
PyEq(a, b) ==
    \/ a = b
    \/ {a, b} = {"True", "1"}
    \/ {a, b} = {"False", "0"}

\* `x in [True, False]`: list membership compares with ==.
InTrueFalse(x) == PyEq(x, "True") \/ PyEq(x, "False")

\* bool(x)
Truthy(x) == x \notin {"False", "None", "0"}

\* ------------------------------------------------------------------ state
VARIABLES
    \* the LabelCooccurenceClustererBase instance (the clusterer's graph_builder)
    b_status,             \* "new" | "constructed" | "ValueError" | "generated"
    ctor_args,            \* the arguments <<weighted, include_self_edges, normalize_self_edges>>
    is_weighted,          \* attributes; "unset" until __init__ assigns them
    include_self_edges,
    normalize_self_edges,
    b_label_count,        \* self.label_count of the builder, 0 until the first call
    edge_map,             \* self.edge_map: a dict, held as its items in insertion order
    y,                    \* the label matrix of the current or last call
    \* the GraphToolCooccurenceClusterer instance
    pc,                   \* position inside fit_predict, "idle" between calls
    n_iters,
    use_degree_corr,      \* "None" | "True" | "False"
    model_selection_criterium,
    py3,                  \* the interpreter: filter() is lazy under Python 3
    label_count,
    coocurence_graph,     \* [nv, edges]: edges in the order they were added
    weights,              \* the edge property map: weights[i] belongs to edges[i]
    dls_, vm_, em_, h_, state_, S_bethe_, S_mf_, L_,
    todo,                 \* the deg_corr values fit_predict has still to fit
    deg_corr,             \* the argument of the running predict_communities
    sweeps,               \* callbacks made by the running mcmc_equilibrate
    which_model_to_use,
    state_to_use,
    label_sets,
    model_count,
    result,               \* what fit_predict returned (or raised)
    prev_fitted           \* history: the keys state_ held when the call began

bvars == <<b_status, ctor_args, is_weighted, include_self_edges,
           normalize_self_edges, b_label_count, edge_map, y>>

cvars == <<pc, n_iters, use_degree_corr, model_selection_criterium, py3,
           label_count, coocurence_graph, weights, dls_, vm_, em_, h_, state_,
           S_bethe_, S_mf_, L_, todo, deg_corr, sweeps, which_model_to_use,
           state_to_use, label_sets, model_count, result, prev_fitted>>

vars == <<bvars, cvars>>

\* ----------------------------------------------------------------- dict
\* A Python dict as the sequence of its items [k, v] in insertion order.
Keys(d) == {d[i].k : i \in 1..Len(d)}

Has(d, key) == \E i \in 1..Len(d) : d[i].k = key

Get(d, key) == d[CHOOSE i \in 1..Len(d) : d[i].k = key].v

\* d[key] = val
Put(d, key, val) ==
    IF Has(d, key)
    THEN [i \in 1..Len(d) |-> IF d[i].k = key THEN [k |-> key, v |-> val] ELSE d[i]]
    ELSE Append(d, [k |-> key, v |-> val])

\* --------------------------------------------------------------- matrices
\* A dense binary matrix of shape (n_samples, ncols): data[i][j+1] is the
\* entry of sample i, label j.
Matrices(maxRows, maxCols) ==
    UNION {{[ncols |-> c, data |-> d] : d \in [1..r -> [1..c -> {0, 1}]]} :
           <<r, c>> \in (0..maxRows) \X (1..maxCols)}

\* get_matrix_in_format(y, 'lil').rows: per sample, the sorted list of the
\* column indices of its non-zero entries.
lil_rows(m) ==
    [i \in 1..Len(m.data) |->
        SelectSeq([j \in 1..m.ncols |-> j - 1], LAMBDA c : m.data[i][c + 1] # 0)]

\* ---------------------------------------------------------------- builder
\* 1.0 in halves
One == 2

\* Mutant of PairsWith: the strict comparison the wrong way round.
PairsWith_flipped(row, b, selfEdges) ==
    SelectSeq([i \in 1..Len(row) |-> <<row[i], b>>],
              LAMBDA p : IF selfEdges THEN p[1] <= p[2] ELSE p[1] > p[2])

\* [(a, b) for a in row if a <= b]   (a < b without self edges)
PairsWith(row, b, selfEdges) ==
    SelectSeq([i \in 1..Len(row) |-> <<row[i], b>>],
              LAMBDA p : IF selfEdges THEN p[1] <= p[2] ELSE p[1] < p[2])

\* [(a, b) for b in row for a in row if ...]: the b loop is the outer one.
RECURSIVE PairsUpTo(_, _, _)
PairsUpTo(row, n, selfEdges) ==
    IF n = 0 THEN <<>>
    ELSE PairsUpTo(row, n - 1, selfEdges) \o PairsWith(row, row[n], selfEdges)

pairs(row, selfEdges) == PairsUpTo(row, Len(row), selfEdges)

\* the body of `for p in pairs`
AddPair(em, p, weighted) ==
    IF ~Has(em, p) THEN Put(em, p, One)
    ELSE IF weighted THEN Put(em, p, Get(em, p) + One)
    ELSE em

RECURSIVE AddPairs(_, _, _, _)
AddPairs(em, ps, n, weighted) ==
    IF n = 0 THEN em
    ELSE AddPair(AddPairs(em, ps, n - 1, weighted), ps[n], weighted)

\* `for row in label_data.rows`, over the first n rows
RECURSIVE AddRows(_, _, _, _, _)
AddRows(em, rows, n, selfEdges, weighted) ==
    IF n = 0 THEN em
    ELSE LET ps == pairs(rows[n], selfEdges)
         IN  AddPairs(AddRows(em, rows, n - 1, selfEdges, weighted),
                      ps, Len(ps), weighted)

\* Mutant of NormalizeUpTo: range(label_count - 1), the last label skipped.
RECURSIVE NormalizeUpTo_short(_, _)
NormalizeUpTo_short(em, n) ==
    IF n <= 1 THEN em
    ELSE LET prev == NormalizeUpTo_short(em, n - 1)
             key  == <<n - 2, n - 2>>
         IN  IF Has(prev, key) THEN Put(prev, key, Get(prev, key) \div 2)
             ELSE prev

\* `for i in range(label_count): if (i,i) in edge_map: edge_map[(i,i)] /= 2.0`
RECURSIVE NormalizeUpTo(_, _)
NormalizeUpTo(em, n) ==
    IF n = 0 THEN em
    ELSE LET prev == NormalizeUpTo(em, n - 1)
             key  == <<n - 1, n - 1>>
         IN  IF Has(prev, key) THEN Put(prev, key, Get(prev, key) \div 2)
             ELSE prev

\* Mutant of new_edge_map: the builder goes on filling self.edge_map.
new_edge_map_kept(old) == old

\* `edge_map = {}`: a local, whatever self.edge_map held before the call.
new_edge_map(old) == <<>>

\* generate_coocurence_adjacency_matrix(y) of a builder with attributes
\* w, s, n (is_weighted, include_self_edges, normalize_self_edges) that holds
\* edge map `old`: the new label_count and the new edge_map.
generate_coocurence_adjacency_matrix(w, s, n, old, m) ==
    LET label_data == lil_rows(m)
        counted    == AddRows(new_edge_map(old), label_data, Len(label_data),
                              Truthy(s), Truthy(w))
    IN  [label_count |-> m.ncols,
         edge_map    |-> IF Truthy(n) THEN NormalizeUpTo(counted, m.ncols)
                         ELSE counted]

\* Mutant of init_outcome: the check of line 58 left out.
init_outcome_unchecked(w, s, n) ==
    IF ~InTrueFalse(w) THEN "ValueError"
    ELSE IF ~InTrueFalse(s) THEN "ValueError"
    ELSE IF ~InTrueFalse(n) THEN "ValueError"
    ELSE "constructed"

\* LabelCooccurenceClustererBase.__init__: "ValueError" when it raises,
\* "constructed" when it returns.
init_outcome(w, s, n) ==
    IF ~InTrueFalse(w) THEN "ValueError"
    ELSE IF ~InTrueFalse(s) THEN "ValueError"
    ELSE IF ~InTrueFalse(n) THEN "ValueError"
    ELSE IF ~Truthy(s) /\ Truthy(n) THEN "ValueError"
    ELSE "constructed"


\* ------------------------------------------------------- clusterer helpers
EmptyDict == <<>>

\* Mutant of reset_dict: the dicts are made once and kept from call to call.
reset_dict_kept(old) == old

\* `self.dls_ = {}` and the seven assignments after it
reset_dict(old) == EmptyDict

\* d[key] = val for a dict keyed by deg_corr
Set(d, key, val) == (key :> val) @@ d

RECURSIVE SumSeq(_, _)
SumSeq(s, n) == IF n = 0 THEN 0 ELSE SumSeq(s, n - 1) + s[n]

\* what graph-tool may answer: a description length (s.entropy()) and the
\* mean-field and Bethe entropies
DescriptionLengths == {5}
SelectDescriptionLengths == {5, 6}
EntropyVals == {0, 1}

\* graph_builder.transform(y)
transform(w, s, n, old, m) == generate_coocurence_adjacency_matrix(w, s, n, old, m)

\* Mutant of build_graph_instance: no g.add_vertex(label_count); the graph
\* has the vertices its edges reach.
build_graph_instance_grown(em, count) ==
    LET ends == UNION {{em[i].k[1], em[i].k[2]} : i \in 1..Len(em)}
    IN  [g       |-> [nv    |-> IF ends = {} THEN 0
                                ELSE 1 + CHOOSE v \in ends : \A u \in ends : u <= v,
                      edges |-> [i \in 1..Len(em) |-> em[i].k]],
         weights |-> [i \in 1..Len(em) |-> em[i].v]]

\* build_graph_instance, given the edge map transform returned: the graph
\* (g.add_vertex(label_count), then one g.add_edge per item) and the weight
\* property map.
build_graph_instance(em, count) ==
    [g       |-> [nv |-> count, edges |-> [i \in 1..Len(em) |-> em[i].k]],
     weights |-> [i \in 1..Len(em) |-> em[i].v]]

\* lines 125-139: which_model_to_use
choose_model(udc, criterium, smf, sbethe) ==
    IF udc = "None"
    THEN LET decision_criterion == IF criterium = "bethe" THEN sbethe ELSE smf
         IN  decision_criterion[TRUE] < decision_criterion[FALSE]
    ELSE udc = "True"

\* Mutant of group_labels: the filter of line 150 left out.
group_labels_unfiltered(found_blocks) ==
    LET n == Len(found_blocks)
    IN  [b \in 1..n |->
            SelectSeq([l \in 1..n |-> l - 1],
                      LAMBDA l : found_blocks[l + 1] = b - 1)]

\* lines 145-151: the labels of each block, the empty blocks dropped
group_labels(found_blocks) ==
    LET n      == Len(found_blocks)
        sets   == [b \in 1..n |->
                     SelectSeq([l \in 1..n |-> l - 1],
                               LAMBDA l : found_blocks[l + 1] = b - 1)]
    IN  SelectSeq(sets, LAMBDA x : Len(x) > 0)

\* state.get_blocks().get_array() of a non-overlapping state with B = nv
\* blocks: one block id below nv per vertex.
BlockArrays(nv) == [1..nv -> 0..(nv - 1)]

\* allow_overlap: the model covers the non-overlapping clusterer.
allow_overlap == FALSE

\* ---------------------------------------------------------------- actions
NoMatrix == [ncols |-> 0, data |-> <<>>]
NoResult == [kind |-> "none", value |-> <<>>]
NoState == [deg_corr |-> FALSE, layered |-> FALSE, B |-> 0]

BuilderNew ==
    /\ b_status = "new"
    /\ ctor_args = <<"None", "None", "None">>
    /\ is_weighted = "unset"
    /\ include_self_edges = "unset"
    /\ normalize_self_edges = "unset"
    /\ b_label_count = 0
    /\ edge_map = <<>>

\* a builder as __init__ leaves it when given booleans
BuilderConstructed ==
    /\ b_status = "constructed"
    /\ ctor_args \in {a \in Bools \X Bools \X Bools :
                        init_outcome(a[1], a[2], a[3]) = "constructed"}
    /\ is_weighted = ctor_args[1]
    /\ include_self_edges = ctor_args[2]
    /\ normalize_self_edges = ctor_args[3]
    /\ b_label_count = 0
    /\ edge_map = <<>>

\* GraphToolCooccurenceClusterer.__init__, before the first fit_predict
ClustererNew ==
    /\ pc = "idle"
    /\ label_count = 0
    /\ coocurence_graph = [nv |-> 0, edges |-> <<>>]
    /\ weights = <<>>
    /\ dls_ = EmptyDict /\ vm_ = EmptyDict /\ em_ = EmptyDict /\ h_ = EmptyDict
    /\ state_ = EmptyDict /\ S_bethe_ = EmptyDict /\ S_mf_ = EmptyDict
    /\ L_ = EmptyDict
    /\ todo = <<>>
    /\ deg_corr = FALSE
    /\ sweeps = 0
    /\ which_model_to_use = FALSE
    /\ state_to_use = NoState
    /\ label_sets = [kind |-> "list", value |-> <<>>]
    /\ model_count = 0
    /\ result = NoResult
    /\ prev_fitted = {}

ClustererDefault ==
    /\ ClustererNew
    /\ n_iters = 1
    /\ use_degree_corr = "None"
    /\ model_selection_criterium = "mean_field"
    /\ py3 = FALSE

\* LabelCooccurenceClustererBase.__init__(weighted, include_self_edges,
\* normalize_self_edges)
Construct ==
    /\ b_status = "new"
    /\ \E w \in PyVal, s \in PyVal, n \in PyVal :
         /\ ctor_args' = <<w, s, n>>
         /\ b_status' = init_outcome(w, s, n)
         /\ IF init_outcome(w, s, n) = "constructed"
            THEN /\ is_weighted' = w
                 /\ include_self_edges' = s
                 /\ normalize_self_edges' = n
            ELSE UNCHANGED <<is_weighted, include_self_edges, normalize_self_edges>>
    /\ UNCHANGED <<b_label_count, edge_map, y, cvars>>

\* generate_coocurence_adjacency_matrix(y)
Generate ==
    /\ b_status = "constructed"
    /\ LET r == generate_coocurence_adjacency_matrix(
                    is_weighted, include_self_edges, normalize_self_edges,
                    edge_map, y)
       IN  /\ b_label_count' = r.label_count
           /\ edge_map' = r.edge_map
    /\ b_status' = "generated"
    /\ UNCHANGED <<ctor_args, is_weighted, include_self_edges,
                   normalize_self_edges, y, cvars>>

InitInit == BuilderNew /\ y = NoMatrix /\ ClustererDefault
NextInit == Construct
SpecInit == InitInit /\ [][NextInit]_vars

InitBuilder ==
    /\ BuilderConstructed
    /\ y \in Matrices(MaxRows, MaxLabels)
    /\ ClustererDefault
NextBuilder == Generate
SpecBuilder == InitBuilder /\ [][NextBuilder]_vars

\* ------------------------------------------------------------- fit_predict
\* fit_predict(X, y), lines 113-123: label_count, the eight dicts, then
\* build_graph_instance(y), which has the graph builder transform y.
fit_predict_begin(inputs) ==
    /\ pc \in {"idle", "done"}
    /\ \E m \in inputs :
         LET r == transform(is_weighted, include_self_edges,
                            normalize_self_edges, edge_map, m)
             b == build_graph_instance(r.edge_map, m.ncols)
         IN  /\ y' = m
             /\ label_count' = m.ncols
             /\ b_label_count' = r.label_count
             /\ edge_map' = r.edge_map
             /\ coocurence_graph' = b.g
             /\ weights' = b.weights
    /\ dls_' = reset_dict(dls_)
    /\ vm_' = reset_dict(vm_)
    /\ em_' = reset_dict(em_)
    /\ h_' = reset_dict(h_)
    /\ state_' = reset_dict(state_)
    /\ S_bethe_' = reset_dict(S_bethe_)
    /\ S_mf_' = reset_dict(S_mf_)
    /\ L_' = reset_dict(L_)
    /\ todo' = IF use_degree_corr = "None" THEN <<TRUE, FALSE>>
               ELSE <<use_degree_corr = "True">>
    /\ pc' = "fit"
    /\ which_model_to_use' = FALSE
    /\ state_to_use' = NoState
    /\ result' = NoResult
    /\ prev_fitted' = DOMAIN state_
    /\ UNCHANGED <<b_status, ctor_args, is_weighted, include_self_edges,
                   normalize_self_edges, n_iters, use_degree_corr,
                   model_selection_criterium, py3, deg_corr, sweeps,
                   label_sets, model_count>>

\* predict_communities(deg_corr), lines 158-172: the block model is
\* minimised and copied with B = num_vertices, and the statistics of this
\* deg_corr start afresh.
predict_communities_begin ==
    /\ pc = "fit"
    /\ todo # <<>>
    /\ deg_corr' = Head(todo)
    /\ todo' = Tail(todo)
    /\ dls_' = Set(dls_, Head(todo), <<>>)
    /\ vm_' = Set(vm_, Head(todo), 0)
    /\ em_' = Set(em_, Head(todo), 0)
    /\ h_' = Set(h_, Head(todo), [B \in 0..coocurence_graph.nv |-> 0])
    /\ sweeps' = 0
    /\ pc' = "equilibrate"
    /\ UNCHANGED <<bvars, n_iters, use_degree_corr, model_selection_criterium,
                   py3, label_count, coocurence_graph, weights, state_,
                   S_bethe_, S_mf_, L_, which_model_to_use, state_to_use,
                   label_sets, model_count, result, prev_fitted>>

\* collect_marginals, lines 174-179: the callback mcmc_equilibrate makes after
\* each of its force_niter = n_iters sweeps.  The marginals are held by the
\* number of samples collected into them.
collect_marginals(entropies) ==
    /\ pc = "equilibrate"
    /\ sweeps < n_iters
    /\ \E entropy \in entropies, B \in 1..coocurence_graph.nv :
         /\ vm_' = Set(vm_, deg_corr, vm_[deg_corr] + 1)
         /\ em_' = Set(em_, deg_corr, em_[deg_corr] + 1)
         /\ dls_' = Set(dls_, deg_corr, Append(dls_[deg_corr], entropy))
         /\ h_' = Set(h_, deg_corr,
                      [h_[deg_corr] EXCEPT ![B] = h_[deg_corr][B] + 1])
    /\ sweeps' = sweeps + 1
    /\ UNCHANGED <<bvars, pc, n_iters, use_degree_corr,
                   model_selection_criterium, py3, label_count,
                   coocurence_graph, weights, state_, S_bethe_, S_mf_, L_,
                   todo, deg_corr, which_model_to_use, state_to_use,
                   label_sets, model_count, result, prev_fitted>>

\* predict_communities, lines 191-198, once mcmc_equilibrate has returned.
\* L is -mean(dls), held as the fraction num/den.  The fitted state is held
\* by what identifies it: its deg_corr, its kind and its B.
predict_communities_end ==
    /\ pc = "equilibrate"
    /\ sweeps = n_iters
    /\ \E S_mf \in EntropyVals, S_bethe \in EntropyVals :
         /\ S_mf_' = Set(S_mf_, deg_corr, S_mf)
         /\ S_bethe_' = Set(S_bethe_, deg_corr, S_bethe)
    /\ L_' = Set(L_, deg_corr,
                 [num |-> 0 - SumSeq(dls_[deg_corr], Len(dls_[deg_corr])),
                  den |-> Len(dls_[deg_corr])])
    /\ state_' = Set(state_, deg_corr,
                     [deg_corr |-> deg_corr,
                      layered  |-> Truthy(is_weighted),
                      B        |-> coocurence_graph.nv])
    /\ pc' = "fit"
    /\ deg_corr' = FALSE
    /\ sweeps' = 0
    /\ UNCHANGED <<bvars, n_iters, use_degree_corr, model_selection_criterium,
                   py3, label_count, coocurence_graph, weights, dls_, vm_,
                   em_, h_, todo, which_model_to_use, state_to_use,
                   label_sets, model_count, result, prev_fitted>>

\* fit_predict, lines 125-155 after the last predict_communities: the model
\* is chosen, its blocks are read and grouped.  Under Python 3 filter() gives
\* an iterator and len() of it raises TypeError at line 153.
fit_predict_end ==
    /\ pc = "fit"
    /\ todo = <<>>
    /\ LET which == choose_model(use_degree_corr, model_selection_criterium,
                                 S_mf_, S_bethe_)
       IN  /\ which_model_to_use' = which
           /\ state_to_use' = state_[which]
           /\ \E found_blocks \in BlockArrays(state_[which].B) :
                LET sets == group_labels(found_blocks)
                IN  IF py3
                    THEN /\ label_sets' = [kind |-> "filter", value |-> sets]
                         /\ result' = [kind |-> "TypeError", value |-> <<>>]
                         /\ UNCHANGED model_count
                    ELSE /\ label_sets' = [kind |-> "list", value |-> sets]
                         /\ model_count' = Len(sets)
                         /\ result' = [kind |-> "returned", value |-> sets]
    /\ pc' = "done"
    /\ UNCHANGED <<bvars, n_iters, use_degree_corr, model_selection_criterium,
                   py3, label_count, coocurence_graph, weights, dls_, vm_,
                   em_, h_, state_, S_bethe_, S_mf_, L_, todo, deg_corr,
                   sweeps, prev_fitted>>

\* The caller assigns the public attribute use_degree_corr (line 50)
\* between two calls.  The locals and the return value of the call before are
\* gone by then.
set_use_degree_corr ==
    /\ pc \in {"idle", "done"}
    /\ \E v \in {"None", "True", "False"} \ {use_degree_corr} :
         use_degree_corr' = v
    /\ pc' = "idle"
    /\ which_model_to_use' = FALSE
    /\ state_to_use' = NoState
    /\ result' = NoResult
    /\ UNCHANGED <<bvars, n_iters, model_selection_criterium, py3,
                   label_count, coocurence_graph, weights, dls_, vm_, em_, h_,
                   state_, S_bethe_, S_mf_, L_, todo, deg_corr, sweeps,
                   label_sets, model_count, prev_fitted>>

fit_predict_call == fit_predict_begin(Matrices(MaxFitRows, MaxFitLabels))

collect_marginals_call == collect_marginals(DescriptionLengths)

Init ==
    /\ BuilderConstructed
    /\ include_self_edges = "False"
    /\ y = NoMatrix
    /\ ClustererNew
    /\ n_iters \in 1..MaxIters
    /\ use_degree_corr \in {"None", "True", "False"}
    /\ model_selection_criterium = "mean_field"
    /\ py3 \in BOOLEAN

Next ==
    \/ fit_predict_call
    \/ predict_communities_begin
    \/ collect_marginals_call
    \/ predict_communities_end
    \/ fit_predict_end
    \/ set_use_degree_corr

Spec == Init /\ [][Next]_vars

fit_predict_graph_call ==
    fit_predict_begin(Matrices(MaxGraphRows, MaxGraphLabels))

InitGraph ==
    /\ BuilderConstructed
    /\ y = NoMatrix
    /\ ClustererNew
    /\ n_iters = 1
    /\ use_degree_corr = "False"
    /\ model_selection_criterium = "mean_field"
    /\ py3 = FALSE

NextGraph ==
    \/ fit_predict_graph_call
    \/ predict_communities_begin
    \/ collect_marginals_call
    \/ predict_communities_end
    \/ fit_predict_end

SpecGraph == InitGraph /\ [][NextGraph]_vars

collect_marginals_select == collect_marginals(SelectDescriptionLengths)

InitSelect ==
    /\ BuilderConstructed
    /\ include_self_edges = "False"
    /\ y = NoMatrix
    /\ ClustererNew
    /\ n_iters = 1
    /\ use_degree_corr \in {"None", "True", "False"}
    /\ model_selection_criterium \in {"mean_field", "bethe"}
    /\ py3 = FALSE

NextSelect ==
    \/ fit_predict_call
    \/ predict_communities_begin
    \/ collect_marginals_select
    \/ predict_communities_end
    \/ fit_predict_end

SpecSelect == InitSelect /\ [][NextSelect]_vars


\* ================================================================= claims
Weighted == Truthy(is_weighted)
SelfEdges == Truthy(include_self_edges)
Normalized == Truthy(normalize_self_edges)

Labels(m) == 0..(m.ncols - 1)

\* the number of samples of m that carry every label of ls
RowsWith(m, ls) ==
    Cardinality({i \in 1..Len(m.data) : \A l \in ls : m.data[i][l + 1] # 0})

\* the weight of an edge, an edge the map does not hold weighing nothing
WeightOf(d, key) == IF Has(d, key) THEN Get(d, key) ELSE 0

\* a count as a float, and half of it
Float(n) == n * One
HalfFloat(n) == (n * One) \div 2

\* ---- C2 (SpecInit).  As stated: whenever one of the three flags is not one
\* of the booleans True and False, __init__ raises ValueError and sets none
\* of is_weighted, include_self_edges, normalize_self_edges.
\* The code tests `flag not in [True, False]`, which 0 and 1 pass.
C2_NonBooleanRaises ==
    (b_status # "new" /\ \E i \in 1..3 : ctor_args[i] \notin Bools) =>
        /\ b_status = "ValueError"
        /\ is_weighted = "unset"
        /\ include_self_edges = "unset"
        /\ normalize_self_edges = "unset"

\* ---- C3 (SpecInit).  Given three booleans, __init__ raises ValueError when
\* normalize_self_edges is true and include_self_edges false, whatever
\* weighted is, and otherwise returns with the three attributes equal to the
\* three arguments.
C3_BooleanFlags ==
    (b_status # "new" /\ ctor_args \in Bools \X Bools \X Bools) =>
        IF ctor_args[3] = "True" /\ ctor_args[2] = "False"
        THEN b_status = "ValueError"
        ELSE /\ b_status = "constructed"
             /\ is_weighted = ctor_args[1]
             /\ include_self_edges = ctor_args[2]
             /\ normalize_self_edges = ctor_args[3]

C3_Witness ==
    /\ b_status = "ValueError"
    /\ ctor_args = <<"True", "False", "True">>
    /\ is_weighted = "unset"

\* ---- C4 (SpecBuilder).  As stated: with self edges, the weight of (i,i) is
\* the number of samples containing label i, and half of it when normalised,
\* for every label i.
C4_SelfEdgeIsCount ==
    (b_status = "generated" /\ SelfEdges) =>
        \A i \in Labels(y) :
            WeightOf(edge_map, <<i, i>>) =
                IF Normalized THEN HalfFloat(RowsWith(y, {i}))
                ELSE Float(RowsWith(y, {i}))

\* C4 as amended: in weighted mode with self edges, the weight of (i,i) is
\* the number of samples containing label i, and half of it when normalised,
\* for every label i; a label in no sample has no (i,i) entry.
C4_SelfEdgeWeight ==
    (b_status = "generated" /\ SelfEdges /\ Weighted) =>
        \A i \in Labels(y) :
            /\ Has(edge_map, <<i, i>>) <=> RowsWith(y, {i}) > 0
            /\ WeightOf(edge_map, <<i, i>>) =
                   IF Normalized THEN HalfFloat(RowsWith(y, {i}))
                   ELSE Float(RowsWith(y, {i}))

C4_Witness ==
    /\ b_status = "generated"
    /\ SelfEdges /\ Weighted /\ Normalized
    /\ \E i \in Labels(y) :
         /\ RowsWith(y, {i}) = 3
         /\ Get(edge_map, <<i, i>>) = HalfFloat(3)

\* ---- C5 (SpecBuilder).  As stated: in unweighted mode every entry of the
\* edge map weighs exactly 1.0, whatever include_self_edges and
\* normalize_self_edges are.
C5_UnweightedAllOne ==
    (b_status = "generated" /\ ~Weighted) =>
        \A i \in 1..Len(edge_map) : edge_map[i].v = Float(1)

\* ---- C6 (SpecBuilder): the matrix with rows [1,0,1], [0,1,1], [1,1,0],
\* weighted, without self edges.
Example ==
    [ncols |-> 3, data |-> << <<1, 0, 1>>, <<0, 1, 1>>, <<1, 1, 0>> >>]

ExampleCase == b_status = "generated" /\ y = Example /\ Weighted /\ ~SelfEdges

\* As stated: (0,1) weighs 1, (0,2) weighs 1 and (1,2) weighs 2.
C6_ExampleAsStated ==
    ExampleCase =>
        /\ WeightOf(edge_map, <<0, 1>>) = Float(1)
        /\ WeightOf(edge_map, <<0, 2>>) = Float(1)
        /\ WeightOf(edge_map, <<1, 2>>) = Float(2)

\* C6 as amended: each of (0,1), (0,2) and (1,2) weighs 1; each pair of
\* labels is together in one sample only.
C6_Example ==
    ExampleCase =>
        /\ WeightOf(edge_map, <<0, 1>>) = Float(1)
        /\ WeightOf(edge_map, <<0, 2>>) = Float(1)
        /\ WeightOf(edge_map, <<1, 2>>) = Float(1)

C6_Witness == ExampleCase /\ Len(edge_map) = 3

\* ---- C7 (SpecGraph).  After every call, later calls included, the edge map
\* is that of the matrix of the call: no key is held twice; the keys are the
\* pairs (a,b), a < b (or a = b with self edges), of labels some sample
\* carries together; and in weighted mode the weight of a key with a < b is
\* the number of samples that carry both, whatever normalize_self_edges is.
CoKeys(m, selfEdges) ==
    {p \in Labels(m) \X Labels(m) :
        /\ p[1] < p[2] \/ (selfEdges /\ p[1] = p[2])
        /\ RowsWith(m, {p[1], p[2]}) > 0}

C7_EdgeMapOfTheCall ==
    (y # NoMatrix) =>
        /\ Len(edge_map) = Cardinality(Keys(edge_map))
        /\ Keys(edge_map) = CoKeys(y, SelfEdges)
        /\ Weighted =>
             \A p \in Keys(edge_map) :
                 p[1] < p[2] =>
                     Get(edge_map, p) = Float(RowsWith(y, {p[1], p[2]}))

\* a second call, on a matrix with two labels after one with a single label
C7_Witness ==
    /\ pc = "fit"
    /\ label_sets.value = << <<0>> >>
    /\ y.ncols = 2
    /\ Weighted /\ SelfEdges /\ Normalized
    /\ WeightOf(edge_map, <<0, 1>>) = Float(2)

\* ---- C8 (SpecGraph).  The graph fit_predict builds has as many vertices as
\* y has columns and, for each entry of the edge map, exactly one edge, which
\* joins the two labels of the key and carries the value as its weight; it
\* has no other edge, and a label that no key names is a vertex no edge
\* touches.
Joins(e, key) == {e[1], e[2]} = {key[1], key[2]}

EdgesOf(g, key) == {i \in 1..Len(g.edges) : Joins(g.edges[i], key)}

C8_GraphOfEdgeMap ==
    (y # NoMatrix) =>
        LET g == coocurence_graph
        IN  /\ g.nv = y.ncols
            /\ DOMAIN weights = DOMAIN g.edges
            /\ \A j \in 1..Len(edge_map) :
                 /\ Cardinality(EdgesOf(g, edge_map[j].k)) = 1
                 /\ \A i \in EdgesOf(g, edge_map[j].k) :
                        weights[i] = edge_map[j].v
            /\ \A i \in 1..Len(g.edges) :
                 \E j \in 1..Len(edge_map) : Joins(g.edges[i], edge_map[j].k)
            /\ \A l \in Labels(y) :
                 (\A key \in Keys(edge_map) : l \notin {key[1], key[2]}) =>
                     /\ l < g.nv
                     /\ \A i \in 1..Len(g.edges) : l \notin {g.edges[i][1], g.edges[i][2]}

\* label 1 is in no sample, label 0 in two: one self edge and a lone vertex
C8_Witness ==
    /\ y = [ncols |-> 2, data |-> << <<1, 0>>, <<1, 0>> >>]
    /\ Weighted /\ SelfEdges /\ ~Normalized
    /\ coocurence_graph = [nv |-> 2, edges |-> << <<0, 0>> >>]
    /\ weights = <<Float(2)>>

\* ---- C9 (SpecSelect).  As stated: with use_degree_corr None both models are
\* fitted and the one used is chosen by comparing their model evidence,
\* L + S_mf by default and L + S_bethe under 'bethe'; with use_degree_corr
\* True or False that model alone is fitted and used.
\* The code compares S_mf_ (S_bethe_) alone and leaves L_ out.
EvidenceLess(L, S, a, b) ==
    (L[a].num + S[a] * L[a].den) * L[b].den < (L[b].num + S[b] * L[b].den) * L[a].den

C9_ChosenByEvidence ==
    (pc = "done") =>
        /\ state_to_use = state_[which_model_to_use]
        /\ state_to_use.deg_corr = which_model_to_use
        /\ IF use_degree_corr = "None"
           THEN /\ DOMAIN state_ = {TRUE, FALSE}
                /\ which_model_to_use =
                     EvidenceLess(L_, IF model_selection_criterium = "bethe"
                                      THEN S_bethe_ ELSE S_mf_, TRUE, FALSE)
           ELSE /\ DOMAIN state_ = {use_degree_corr = "True"}
                /\ which_model_to_use = (use_degree_corr = "True")

\* ---- C1 (Spec).  The clusters fit_predict returns are non-empty and every
\* label index of y is in exactly one of them; they hold nothing else.
Places(sets) == {p \in (1..Len(sets)) \X (1..MaxFitLabels + 1) : p[2] <= Len(sets[p[1]])}

C1_ClustersPartitionLabels ==
    (pc = "done" /\ result.kind = "returned") =>
        LET sets == result.value
        IN  /\ \A i \in 1..Len(sets) : Len(sets[i]) > 0
            /\ \A i \in 1..Len(sets) : \A j \in 1..Len(sets[i]) :
                   sets[i][j] \in Labels(y)
            /\ \A l \in Labels(y) :
                   Cardinality({p \in Places(sets) : sets[p[1]][p[2]] = l}) = 1

\* two labels in one cluster: the other block is empty and is not returned
C1_Witness ==
    /\ pc = "done"
    /\ result = [kind |-> "returned", value |-> << <<0, 1>> >>]
    /\ y.ncols = 2
    /\ model_count = 1

\* ---- C10 (Spec).  When fit_predict is over, each of the eight dicts has
\* the deg_corr values of this call as its keys, both for use_degree_corr
\* None and otherwise the one forced, and for each of them dls_ has n_iters
\* entries and h_ sums to n_iters, whatever earlier calls left.
RECURSIVE SumUpTo(_, _)
SumUpTo(f, n) == IF n < 0 THEN 0 ELSE SumUpTo(f, n - 1) + f[n]

Fitted == IF use_degree_corr = "None" THEN {TRUE, FALSE}
          ELSE {use_degree_corr = "True"}

C10_StatisticsOfThisCall ==
    (pc = "done") =>
        /\ DOMAIN dls_ = Fitted /\ DOMAIN vm_ = Fitted
        /\ DOMAIN em_ = Fitted /\ DOMAIN h_ = Fitted
        /\ DOMAIN state_ = Fitted /\ DOMAIN S_bethe_ = Fitted
        /\ DOMAIN S_mf_ = Fitted /\ DOMAIN L_ = Fitted
        /\ \A dc \in Fitted :
               /\ Len(dls_[dc]) = n_iters
               /\ SumUpTo(h_[dc], label_count) = n_iters

\* a call that forces deg_corr after a call that fitted both models
C10_Witness ==
    /\ pc = "done"
    /\ prev_fitted = {TRUE, FALSE}
    /\ use_degree_corr = "True"
    /\ DOMAIN dls_ = {TRUE}
    /\ n_iters = 2
    /\ Len(dls_[TRUE]) = 2

=============================================================================
